---- MODULE Spec2Model ----
(***************************************************************************)
(* The reconciling bulk loader of ska-src-maltopuft-etl.                   *)
(*                                                                         *)
(* The model holds a relational backend (three tables with sequences, one  *)
(* connection with a transaction and savepoints), the insert primitive     *)
(* insert_, the DatabaseLoader (staging, bulk load, get-or-insert          *)
(* fallback, key rewrite) and the MeerTRAP load routine (bulk attempt in   *)
(* one transaction, row-by-row fallback with the collision swap).          *)
(*                                                                         *)
(* Schema.  The tables are those of three of the configured targets:       *)
(*   observation(id, name, t_max)          unique (name)                   *)
(*   beam(id, name, observation_id)        unique (name, observation_id)   *)
(*   candidate(id, name, beam_id)          unique (name, beam_id)          *)
(* "name" stands for the business attributes of a row, "t_max" for the     *)
(* derived attribute of an observation that is no part of its uniqueness.  *)
(* Every column is NOT NULL.                                               *)
(***************************************************************************)
EXTENDS Integers, Sequences, FiniteSets, TLC

\* ------------------------------------------------------------------ bounds
MaxRows == 2    \* rows of the observation batch
MaxKey == 2     \* local keys and names are drawn from 1..MaxKey
MaxPreId == 2   \* identifiers of the rows the database holds initially
MaxPreRows == 1 \* rows each table holds initially
MaxPreCand == 1 \* identifiers and names of the candidates held initially
MaxPairs == 2   \* entries of the identifier map handed to the propagation
MaxMapKey == 3  \* keys and identifiers of those entries
MaxHandlerRows == 2 \* rows of the batch of a root handler
MaxHandlers == 3    \* handlers: the root and its sub-handlers
MaxUpdates == 2     \* calls of update_df_value on the handlers
MaxFiles == 3       \* files found in the directory that is parsed
MaxHash == 2        \* distinct contents (hashes) of those files

\* None / NaN: the missing value of a dataframe cell.
NoneValue == 0

\* ----------------------------------------------------------------- helpers
Restrict(f, S) == [x \in S |-> f[x]]

SetMax(S) == CHOOSE m \in S : \A x \in S : x <= m

\* dict.get(x, x)
DictGet(M, x) == IF x \in DOMAIN M THEN M[x] ELSE x

\* An assignment that also overwrites the entries the dict holds.
DictSet_clobber(M, k, v) == [x \in (DOMAIN M) \cup {k} |-> v]

\* M[k] = v on a dict
DictSet(M, k, v) == [x \in (DOMAIN M) \cup {k} |-> IF x = k THEN v ELSE M[x]]

EmptyDict == [x \in {} |-> 0]

\* --------------------------------------------------------------- targets
TableNames == {"observation", "beam", "candidate"}

observation_targets ==
    << [table |-> "observation", table_prefix |-> "obs.",
        primary_key |-> "observation_id", foreign_keys |-> {}],
       [table |-> "beam", table_prefix |-> "beam.",
        primary_key |-> "beam_id", foreign_keys |-> {"observation_id"}] >>

candidate_targets ==
    << [table |-> "candidate", table_prefix |-> "cand.",
        primary_key |-> "candidate_id", foreign_keys |-> {"beam_id"}] >>

\* The configured sequences in full: the key column and the foreign-key
\* columns of each target, in the order of declaration.
TargetKeys(pk, fks) == [primary_key |-> pk, foreign_keys |-> fks]

\* The observation targets with beam declared first.
configured_observation_targets_beam_first ==
    << TargetKeys("beam_id", {"observation_id", "host_id"}),
       TargetKeys("schedule_block_id", {}),
       TargetKeys("meerkat_schedule_block_id", {"schedule_block_id"}),
       TargetKeys("coherent_beam_config_id", {}),
       TargetKeys("observation_id", {"coherent_beam_config_id", "schedule_block_id"}),
       TargetKeys("tiling_config_id", {"observation_id"}),
       TargetKeys("host_id", {}) >>

configured_observation_targets ==
    << TargetKeys("schedule_block_id", {}),
       TargetKeys("meerkat_schedule_block_id", {"schedule_block_id"}),
       TargetKeys("coherent_beam_config_id", {}),
       TargetKeys("observation_id", {"coherent_beam_config_id", "schedule_block_id"}),
       TargetKeys("tiling_config_id", {"observation_id"}),
       TargetKeys("host_id", {}),
       TargetKeys("beam_id", {"observation_id", "host_id"}) >>

configured_candidate_targets ==
    << TargetKeys("candidate_id", {"beam_id"}),
       TargetKeys("sp_candidate_id", {"candidate_id"}) >>

atnf_targets ==
    << TargetKeys("catalogue_id", {}),
       TargetKeys("catalogue_visit_id", {"catalogue_id"}),
       TargetKeys("known_pulsar_id", {"catalogue_id"}) >>

\* The column names of the two batches, with the prefix each starts with and
\* the name it has once the prefix is removed (str.startswith, str.replace).
ColumnPrefix ==
    [c \in {"obs.name", "obs.t_max", "beam.name", "cand.name",
            "observation_id", "beam_id", "candidate_id"} |->
        CASE c \in {"obs.name", "obs.t_max"} -> "obs."
          [] c = "beam.name" -> "beam."
          [] c = "cand.name" -> "cand."
          [] OTHER -> ""]

StripPrefix ==
    [c \in DOMAIN ColumnPrefix |->
        CASE c \in {"obs.name", "beam.name", "cand.name"} -> "name"
          [] c = "obs.t_max" -> "t_max"
          [] OTHER -> c]

\* ------------------------------------------------------------ the database
\* The table a foreign-key column references.
ReferencedTable == [c \in {"observation_id", "beam_id"} |->
                      IF c = "observation_id" THEN "observation" ELSE "beam"]

ForeignKeyColumns ==
    [t \in TableNames |->
        CASE t = "observation" -> {}
          [] t = "beam" -> {"observation_id"}
          [] t = "candidate" -> {"beam_id"}]

\* The columns of the unique constraint of each table.
UniqueColumns == [t \in TableNames |-> {"name"} \cup ForeignKeyColumns[t]]

\* The columns of the model class besides id (hasattr(model_class, k)).
ModelColumns ==
    [t \in TableNames |->
        UniqueColumns[t] \cup (IF t = "observation" THEN {"t_max"} ELSE {})]

Ids(rows) == {r["id"] : r \in rows}

\* The parameters of one row as the statement consumes them: the columns of
\* the table; a key of the parameters that is no column is ignored, a column
\* without a parameter is NULL.
ModelRow(t, d) ==
    [c \in ModelColumns[t] |-> IF c \in DOMAIN d THEN d[c] ELSE NoneValue]

\* One INSERT statement of the rows params (in order) into table t.  Each row
\* takes the next value of the table's sequence, then its NOT NULL and unique
\* constraints are checked; the first failing row rejects the statement.  The
\* foreign keys are checked when every row is in.  A sequence is not
\* transactional: the values taken by a rejected statement stay taken.
RowViolation(t, rows, params, i) ==
    IF \E c \in ModelColumns[t] : params[i][c] = NoneValue
    THEN "NotNullViolation"
    ELSE IF \/ \E r \in rows :
                 Restrict(r, UniqueColumns[t]) = Restrict(params[i], UniqueColumns[t])
            \/ \E j \in 1..(i - 1) :
                 Restrict(params[j], UniqueColumns[t])
                     = Restrict(params[i], UniqueColumns[t])
    THEN "UniqueViolation"
    ELSE "none"

\* The first row of the statement that violates a constraint (0: none).
FirstViolation(t, rows, params) ==
    IF \A i \in DOMAIN params : RowViolation(t, rows, params, i) = "none" THEN 0
    ELSE CHOOSE i \in DOMAIN params :
             /\ RowViolation(t, rows, params, i) # "none"
             /\ \A j \in 1..(i - 1) : RowViolation(t, rows, params, j) = "none"

ForeignKeyViolation(t, params, tables) ==
    \E i \in DOMAIN params : \E c \in ForeignKeyColumns[t] :
        params[i][c] \notin Ids(tables[ReferencedTable[c]])

\* RETURNING id in the reverse of the order of data.
ReturningIds_unordered(t, data, seqs) ==
    [i \in 1..Len(data) |-> <<seqs[t] + Len(data) + 1 - i>>]

\* RETURNING id with sort_by_parameter_order: one 1-tuple per row of data, in
\* the order of data.
ReturningIds(t, data, seqs) == [i \in 1..Len(data) |-> <<seqs[t] + i>>]

InsertedRows(t, params, seqs) ==
    {[c \in {"id"} \cup ModelColumns[t] |->
         IF c = "id" THEN seqs[t] + i ELSE params[i][c]] : i \in DOMAIN params}

InsertRows(t, params, tables, seqs, first) ==
    IF first # 0
    THEN [reject |-> RowViolation(t, tables[t], params, first), returned |-> <<>>,
          tables |-> tables, seqs |-> [seqs EXCEPT ![t] = @ + first]]
    ELSE IF ForeignKeyViolation(t, params, tables)
    THEN [reject |-> "ForeignKeyViolation", returned |-> <<>>,
          tables |-> tables, seqs |-> [seqs EXCEPT ![t] = @ + Len(params)]]
    ELSE [reject |-> "none", returned |-> ReturningIds(t, params, seqs),
          tables |-> [tables EXCEPT ![t] = @ \cup InsertedRows(t, params, seqs)],
          seqs |-> [seqs EXCEPT ![t] = @ + Len(params)]]

Params(t, data) == [i \in DOMAIN data |-> ModelRow(t, data[i])]

ExecuteInsert(t, data, tables, seqs) ==
    InsertRows(t, Params(t, data), tables, seqs,
               FirstViolation(t, tables[t], Params(t, data)))

\* A connection is [tables, seqs, tx]: what the connection sees, the
\* sequences, and the state of its transaction ("none", "active", or
\* "aborted" after a rejected statement that no savepoint undid).  A
\* statement sent in an aborted transaction is refused.
Executed(r) ==
    [reject |-> r.reject, returned |-> r.returned,
     conn |-> [tables |-> r.tables, seqs |-> r.seqs,
               tx |-> IF r.reject = "none" THEN "active" ELSE "aborted"]]

Execute(conn, t, data) ==
    IF conn.tx = "aborted"
    THEN [reject |-> "InFailedSqlTransaction", returned |-> <<>>, conn |-> conn]
    ELSE Executed(ExecuteInsert(t, data, conn.tables, conn.seqs))

\* A block without a savepoint: what the block did to the connection stays.
BeginNested_released(before, res) == res

\* with conn.begin_nested(): a savepoint, released when the block ends and
\* rolled back to when the block raises.
BeginNested(before, res) ==
    IF res.exc = "none"
    THEN res
    ELSE [res EXCEPT !.conn = [tables |-> before.tables, seqs |-> res.conn.seqs,
                               tx |-> IF before.tx = "aborted" THEN "aborted"
                                      ELSE "active"]]

\* The block runs inside a savepoint only when transactional.
Savepoint(transactional, before, res) ==
    IF transactional THEN BeginNested(before, res) ELSE res

\* A rollback that keeps what the connection wrote.
Rollback_keep(conn, committedTables) == [conn EXCEPT !.tx = "none"]

Rollback(conn, committedTables) ==
    [tables |-> committedTables, seqs |-> conn.seqs, tx |-> "none"]

\* --------------------------------------------------------- core/insert.py
flatten_ids(returned_ids) == [i \in DOMAIN returned_ids |-> returned_ids[i][1]]

\* Every IntegrityError taken for a duplicate.
ClassifyError_duplicate(reject) ==
    IF reject = "none" THEN "none"
    ELSE IF reject = "InFailedSqlTransaction" THEN "InternalError"
    ELSE "DuplicateInsertError"

\* The except clause of insert_: the exception raised for a rejection.  An
\* error that is no IntegrityError passes through.
ClassifyError(reject) ==
    CASE reject = "none" -> "none"
      [] reject = "UniqueViolation" -> "DuplicateInsertError"
      [] reject = "ForeignKeyViolation" -> "ForeignKeyError"
      [] reject = "NotNullViolation" -> "RuntimeError"
      [] OTHER -> "InternalError"

\* An insert_ that commits the transaction once the statement has succeeded.
InsertOutcome_commit(r) ==
    [exc |-> ClassifyError(r.reject), reject |-> r.reject,
     ids |-> flatten_ids(r.returned), conn |-> r.conn,
     commit |-> r.reject = "none"]

\* What insert_ returns or raises for the outcome r of conn.execute, and
\* whether it committed: conn.execute is the one call it makes on the
\* connection.
InsertOutcome(r) ==
    [exc |-> ClassifyError(r.reject), reject |-> r.reject,
     ids |-> flatten_ids(r.returned), conn |-> r.conn, commit |-> FALSE]

insert_(conn, t, data) == InsertOutcome(Execute(conn, t, data))

\* ------------------------------------------------------------ dataframes
\* A dataframe is a sequence of rows, a row a function from column names.
Columns(df) == IF Len(df) = 0 THEN {} ELSE DOMAIN df[1]

Select(df, cols) == [i \in DOMAIN df |-> Restrict(df[i], cols)]

ColumnValues(df, col) == {df[i][col] : i \in DOMAIN df}

\* polars DataFrame.unique(subset): one row for each distinct value of the
\* column; which of the rows with that value is kept (keep="any") and the
\* order of the result (maintain_order=False) are not specified.
PolarsUnique(df, col) ==
    LET keys == ColumnValues(df, col)
        n == Cardinality(keys)
    IN  {[j \in 1..n |-> df[ix[j]]] :
            ix \in {f \in [1..n -> DOMAIN df] :
                       {df[f[j]][col] : j \in 1..n} = keys}}

\* pandas DataFrame.drop_duplicates(subset): the first row of each distinct
\* value, in the order of the frame.
DropDuplicates(df, col) ==
    LET keep == {i \in DOMAIN df : \A j \in 1..(i - 1) : df[j][col] # df[i][col]}
    IN  [k \in 1..Cardinality(keep) |->
            df[CHOOSE i \in keep : Cardinality({j \in keep : j < i}) = k - 1]]

RenameRow(r) ==
    [c \in {StripPrefix[k] : k \in DOMAIN r} |->
        r[CHOOSE k \in DOMAIN r : StripPrefix[k] = c]]

\* The mapping applied to the result of the mapping.
MapElements_twice(df, col, M) ==
    [i \in DOMAIN df |-> [df[i] EXCEPT ![col] = DictGet(M, DictGet(M, @))]]

\* Column col rewritten with lambda x: M.get(x, x), element by element.
MapElements(df, col, M) ==
    [i \in DOMAIN df |-> [df[i] EXCEPT ![col] = DictGet(M, @)]]

\* The column left as it is.
SeriesMap_identity(df, col, M) == df

\* pandas Series.map(dict): a value that is no key of the dict becomes NaN.
SeriesMap(df, col, M) ==
    [i \in DOMAIN df |->
        [df[i] EXCEPT ![col] = IF @ \in DOMAIN M THEN M[@] ELSE NoneValue]]

\* df.loc[df[col] == initial_value, [col]] = update_value
update_df_value(df, col, initial_value, update_value) ==
    [i \in DOMAIN df |->
        IF df[i][col] = initial_value
        THEN [df[i] EXCEPT ![col] = update_value] ELSE df[i]]

\* --------------------------------------------------------- DatabaseLoader
TargetColumns(df, target) ==
    {c \in Columns(df) : \/ ColumnPrefix[c] = target.table_prefix
                         \/ c = target.primary_key
                         \/ c \in target.foreign_keys}

\* The staged rows one call may return.
prepare_data_for_insert(df, target) ==
    {[i \in DOMAIN u |-> RenameRow(u[i])] :
        u \in PolarsUnique(Select(df, TargetColumns(df, target)),
                           target.primary_key)}

\* rows_df of bulk_load_target_rows and of load_target_rows.
StagedRows(df, target) ==
    UNION {prepare_data_for_insert(u, target) :
              u \in PolarsUnique(df, target.primary_key)}

\* The insert of a row with no savepoint, whatever transactional says.
insert_row_plain(conn, data, target, transactional) ==
    insert_(conn, target.table, <<data>>)

insert_row(conn, data, target, transactional) ==
    Savepoint(transactional, conn, insert_(conn, target.table, <<data>>))

\* A fetch that takes no account of the attributes.
get_by_any(conn, target, attributes) == conn.tables[target.table]

\* The rows a select filtered by the attributes can return (fetchone takes
\* one of them); an attribute that is no column of the model is skipped.
get_by(conn, target, attributes) ==
    {r \in conn.tables[target.table] :
        \A k \in DOMAIN attributes :
            k \in ModelColumns[target.table] => r[k] = attributes[k]}

\* dict(zip(rows_df[primary_key], inserted_ids, strict=False))
ZipKeys(rows_df, primary_key, inserted_ids) ==
    LET n == IF Len(rows_df) <= Len(inserted_ids)
             THEN Len(rows_df) ELSE Len(inserted_ids)
    IN  [k \in {rows_df[i][primary_key] : i \in 1..n} |->
            inserted_ids[CHOOSE i \in 1..n :
                /\ rows_df[i][primary_key] = k
                /\ \A j \in 1..n : rows_df[j][primary_key] = k => j <= i]]

\* The insert of bulk_load_target_rows, inside its savepoint.
bulk_load_target_rows(conn, target, rows_df) ==
    BeginNested(conn, insert_(conn, target.table, rows_df))

\* ------------------------------------------------------------------ state
VARIABLES
    conn,              \* the connection: [tables, seqs, tx]
    committed,         \* the tables as committed
    foreign_keys_map,  \* DatabaseLoader.foreign_keys_map: key name -> map
    obs_in, cand_in,   \* the batches handed to load
    obs_df, cand_df,   \* the batches as the load holds them
    pc,                \* where the load stands
    run,               \* 1: first call of load, 2: the call repeated
    ti,                \* index of the target being loaded
    rows_df,           \* the staged rows of the fallback
    ri,                \* index of the fallback row being loaded
    key_map,           \* key_map of get_or_insert_row_if_not_exist
    local_primary_key, \* of the fallback row
    inserted_id,       \* identifier resolved for the fallback row
    last,              \* the last call of insert_: what it was given, what it
                       \* raised or returned, the transaction it left
    exc,               \* the exception the load raised to its caller
    run1,              \* foreign_keys_map and tables at the end of run 1
    swap_keys,         \* history: the swap keys computed for each table
    handlers,          \* the TargetDataFrameHandler instances: [df, parent,
                       \* through]; through is history, the handlers
                       \* update_df_value was called on since this one exists
    last_update,       \* the last call of update_df_value on a handler
    unique_rows,       \* the last call of unique_rows on a handler: the
                       \* handler, the key column, the rows returned
    extract,           \* the call of parse_observations / parse_candidates:
                       \* which of the two, where it stands, and (history)
                       \* the hashes the map held when it was called
    tasks,             \* the task submitted for each file: the hash of the
                       \* file, where the task stands, its outcome
    run_summary_hash_map, \* the module-level dict of extract.py
    parsed_data,       \* the list the results are appended to
    n_task_fail,       \* the counter of the failed tasks
    yielded            \* the futures as_completed has yielded

load_vars == <<conn, committed, foreign_keys_map, obs_in, cand_in, obs_df, cand_df,
               pc, run, ti, rows_df, ri, key_map, local_primary_key, inserted_id,
               last, exc, run1, swap_keys>>

handler_vars == <<handlers, last_update, unique_rows>>

extract_vars == <<extract, tasks, run_summary_hash_map, parsed_data,
                  n_task_fail, yielded>>

vars == <<load_vars, handler_vars, extract_vars>>

Targets == observation_targets \o candidate_targets

NoUpdate == [n |-> 0, h |-> 0, col |-> "none", initial_value |-> 0,
             update_value |-> 0]

NoUnique == [h |-> 0, primary_key |-> "none", rows |-> <<>>]

\* No extraction is running.
NoExtract ==
    /\ extract = [kind |-> "none", pc |-> "idle", known |-> {}]
    /\ tasks = <<>>
    /\ run_summary_hash_map = EmptyDict
    /\ parsed_data = <<>>
    /\ n_task_fail = 0
    /\ yielded = {}

\* No handler exists.
NoHandlers ==
    /\ handlers = <<>>
    /\ last_update = NoUpdate
    /\ unique_rows = NoUnique

IsObservationTarget(i) == i <= Len(observation_targets)

CurrentDf == IF IsObservationTarget(ti) THEN obs_df ELSE cand_df

NoCall == [exc |-> "none", reject |-> "none", data |-> <<>>, ids |-> <<>>,
           table |-> "none", tx |-> "none"]

Call(r, t, data) ==
    [exc |-> r.exc, reject |-> r.reject, data |-> data, ids |-> r.ids, table |-> t,
     tx |-> r.conn.tx]

\* ------------------------------------------------------------------ inputs
Keys == 1..MaxKey

\* The value of t_max the transformation estimated for the batch, and the
\* values a stored observation can hold.
TMaxValues == {1, 2}

ObsRow(o, b, t) ==
    [c \in {"observation_id", "obs.name", "obs.t_max", "beam_id", "beam.name"} |->
        CASE c = "observation_id" -> o
          [] c = "obs.name" -> o
          [] c = "obs.t_max" -> t
          [] c = "beam_id" -> b
          [] c = "beam.name" -> b]

CandRow(k, n, b) ==
    [c \in {"candidate_id", "cand.name", "beam_id"} |->
        CASE c = "candidate_id" -> k
          [] c = "cand.name" -> n
          [] c = "beam_id" -> b]

\* Observation batches: one row per beam reading; a local key stands for one
\* row of its table, so equal beam keys carry equal observation keys.
ObsBatches ==
    UNION {
      {s \in [1..n -> {ObsRow(o, b, 1) : o \in Keys, b \in Keys}] :
          \A i, j \in 1..n :
              s[i]["beam_id"] = s[j]["beam_id"]
                  => s[i]["observation_id"] = s[j]["observation_id"]}
      : n \in 1..MaxRows}

\* Candidate batches: every candidate was detected in a beam of the batch
\* (transform_spccl raises UnexpectedShapeError otherwise); a candidate whose
\* attributes are missing has name None.
CandBatches(obs) ==
    {<<CandRow(1, n, b)>> : n \in {1, NoneValue}, b \in ColumnValues(obs, "beam_id")}

\* Initial tables: at most MaxPreRows rows in each, identifiers in 1..MaxPreId,
\* the constraints of the schema satisfied.
DbRow(t, id, n, x) ==
    [c \in {"id"} \cup ModelColumns[t] |->
        CASE c = "id" -> id
          [] c = "name" -> n
          [] OTHER -> x]

DbRows(t, parentIds) ==
    {DbRow(t, id, n, x) :
        id \in IF t = "candidate" THEN 1..MaxPreCand ELSE 1..MaxPreId,
        n \in IF t = "candidate" THEN 1..MaxPreCand ELSE Keys,
        x \in IF t = "observation" THEN TMaxValues ELSE parentIds}

InitialRows(t, parentIds) ==
    {S \in SUBSET DbRows(t, parentIds) :
        /\ Cardinality(S) <= MaxPreRows
        /\ \A r1, r2 \in S :
               r1 # r2 => /\ r1["id"] # r2["id"]
                          /\ Restrict(r1, UniqueColumns[t])
                                 # Restrict(r2, UniqueColumns[t])}

Tables(o, b, c) ==
    [t \in TableNames |->
        CASE t = "observation" -> o [] t = "beam" -> b [] t = "candidate" -> c]

InitialTables ==
    UNION {UNION {{Tables(o, b, c) : c \in InitialRows("candidate", Ids(b))}
                  : b \in InitialRows("beam", Ids(o))}
           : o \in InitialRows("observation", {})}

Init ==
    /\ obs_in \in ObsBatches
    /\ cand_in \in CandBatches(obs_in)
    /\ committed \in InitialTables
    /\ conn = [tables |-> committed,
               seqs |-> [t \in TableNames |-> SetMax(Ids(committed[t]) \cup {0})],
               tx |-> "none"]
    /\ foreign_keys_map = EmptyDict
    /\ obs_df = obs_in
    /\ cand_df = cand_in
    /\ pc = "idle"
    /\ run = 1
    /\ ti = 1
    /\ rows_df = <<>>
    /\ ri = 0
    /\ key_map = EmptyDict
    /\ local_primary_key = 0
    /\ inserted_id = 0
    /\ last = NoCall
    /\ exc = "none"
    /\ run1 = [map |-> EmptyDict, tables |-> committed]
    /\ swap_keys = [t \in TableNames |-> {}]
    /\ NoHandlers
    /\ NoExtract

\* What is committed once the call r of insert_ is over.
CommittedAfter(r) == IF r.commit THEN r.conn.tables ELSE committed

\* except DuplicateInsertError: the one exception of insert_ the bulk attempt
\* of DatabaseLoader.load, the bulk attempt of load and the row insert of its
\* fallback recover from.
Recoverable(e) == e = "DuplicateInsertError"

\* ----------------------------------------------- the load of one target
\* The step to the next target with the key column and the map of the
\* target left as they were.
TargetLoaded_unmapped(df, map, next) ==
    /\ foreign_keys_map' = foreign_keys_map
    /\ IF IsObservationTarget(ti)
       THEN /\ obs_df' = CurrentDf
            /\ cand_df' = IF ti = Len(observation_targets)
                          THEN SeriesMap(cand_df, "beam_id", map["beam_id"])
                          ELSE cand_df
       ELSE /\ obs_df' = obs_df
            /\ cand_df' = CurrentDf
    /\ IF ti = Len(Targets)
       THEN pc' = "commit" /\ ti' = ti
       ELSE pc' = next /\ ti' = ti + 1

\* What the loop of base_load does once target ti is loaded: the batch it
\* carries on with is df; after the last observation target the beam_id of the
\* candidates is mapped; after the last target the load is over.
TargetLoaded(df, map, next) ==
    /\ foreign_keys_map' = map
    /\ IF IsObservationTarget(ti)
       THEN /\ obs_df' = df
            /\ cand_df' = IF ti = Len(observation_targets)
                          THEN SeriesMap(cand_df, "beam_id", map["beam_id"])
                          ELSE cand_df
       ELSE /\ obs_df' = obs_df
            /\ cand_df' = df
    /\ IF ti = Len(Targets)
       THEN pc' = "commit" /\ ti' = ti
       ELSE pc' = next /\ ti' = ti + 1

\* The exception reaches the caller with the work of the connection kept.
Raise_without_rollback(e, c) ==
    /\ conn' = [c EXCEPT !.tx = "none"]
    /\ exc' = e
    /\ pc' = "raised"

\* An exception leaves the block of the transaction: the transaction is
\* rolled back and the exception reaches the caller of load.
Raise(e, c) ==
    /\ conn' = Rollback(c, committed)
    /\ exc' = e
    /\ pc' = "raised"

\* with engine.connect() as conn, conn.begin(): db = DatabaseLoader(conn)
Begin ==
    /\ pc = "idle"
    /\ conn' = [conn EXCEPT !.tx = "active"]
    /\ foreign_keys_map' = EmptyDict
    /\ obs_df' = obs_in
    /\ cand_df' = cand_in
    /\ ti' = 1
    /\ pc' = "bulk"
    /\ UNCHANGED <<committed, obs_in, cand_in, run, rows_df, ri, key_map,
                   local_primary_key, inserted_id, last, exc, run1, swap_keys>>
    /\ UNCHANGED handler_vars
    /\ UNCHANGED extract_vars

\* DatabaseLoader.load, the bulk attempt: bulk_load_target_rows and, when it
\* returns, the rewrite of the key column.  DuplicateInsertError starts
\* load_target_rows, which stages the rows again; any other exception leaves
\* load.
LoadBulk ==
    /\ pc = "bulk"
    /\ LET target == Targets[ti]
           pk == target.primary_key
       IN  \E staged \in StagedRows(CurrentDf, target) :
             \E r \in {bulk_load_target_rows(conn, target, staged)} :
             \E map \in {DictSet(foreign_keys_map, pk, ZipKeys(staged, pk, r.ids))} :
                 /\ last' = Call(r, target.table, staged)
                 /\ committed' = CommittedAfter(r)
                 /\ CASE r.exc = "none" ->
                           /\ conn' = r.conn
                           /\ TargetLoaded(MapElements(CurrentDf, pk, map[pk]), map, "bulk")
                           /\ UNCHANGED <<rows_df, ri, key_map, exc>>
                      [] Recoverable(r.exc) ->
                           /\ conn' = r.conn
                           /\ rows_df' \in StagedRows(CurrentDf, target)
                           /\ ri' = 1
                           /\ key_map' = EmptyDict
                           /\ pc' = "get_or_insert"
                           /\ UNCHANGED <<foreign_keys_map, obs_df, cand_df, ti, exc>>
                      [] OTHER ->
                           /\ Raise(r.exc, r.conn)
                           /\ UNCHANGED <<foreign_keys_map, obs_df, cand_df, ti,
                                          rows_df, ri, key_map>>
    /\ UNCHANGED <<obs_in, cand_in, run, local_primary_key, inserted_id, run1, swap_keys>>
    /\ UNCHANGED handler_vars
    /\ UNCHANGED extract_vars

\* One turn of the loop of get_or_insert_row_if_not_exist; after the last row
\* load_target_rows stores key_map and load rewrites the key column.
RowDone(target, id) ==
    LET pk == target.primary_key
        km == DictSet(key_map, rows_df[ri][pk], id)
        map == DictSet(foreign_keys_map, pk, km)
    IN  IF ri < Len(rows_df)
        THEN /\ key_map' = km
             /\ ri' = ri + 1
             /\ UNCHANGED <<foreign_keys_map, obs_df, cand_df, ti, pc>>
        ELSE /\ key_map' = km
             /\ ri' = ri
             /\ TargetLoaded(MapElements(CurrentDf, pk, km), map, "bulk")

GetOrInsertRow ==
    /\ pc = "get_or_insert"
    /\ LET target == Targets[ti]
           attrs == Restrict(rows_df[ri], DOMAIN rows_df[ri] \ {target.primary_key})
           found == get_by(conn, target, attrs)
       IN  IF found # {}
           THEN /\ \E res \in found : RowDone(target, res["id"])
                /\ UNCHANGED <<conn, committed, last, exc>>
           ELSE \E r \in {insert_row(conn, attrs, target, FALSE)} :
                    /\ last' = Call(r, target.table, <<attrs>>)
                    /\ committed' = CommittedAfter(r)
                    /\ IF r.exc = "none"
                       THEN /\ conn' = r.conn
                            /\ RowDone(target, r.ids[1])
                            /\ UNCHANGED exc
                       ELSE /\ Raise(r.exc, r.conn)
                            /\ UNCHANGED <<foreign_keys_map, obs_df, cand_df, ti,
                                           ri, key_map>>
    /\ UNCHANGED <<obs_in, cand_in, run, rows_df, local_primary_key,
                   inserted_id, run1, swap_keys>>
    /\ UNCHANGED handler_vars
    /\ UNCHANGED extract_vars

\* The block of the transaction ends: commit.
Commit ==
    /\ pc = "commit"
    /\ committed' = conn.tables
    /\ conn' = [conn EXCEPT !.tx = "none"]
    /\ pc' = "done"
    /\ run1' = IF run = 1 THEN [map |-> foreign_keys_map, tables |-> conn.tables]
               ELSE run1
    /\ UNCHANGED <<foreign_keys_map, obs_in, cand_in, obs_df, cand_df, run, ti,
                   rows_df, ri, key_map, local_primary_key, inserted_id, last, exc,
                   swap_keys>>
    /\ UNCHANGED handler_vars
    /\ UNCHANGED extract_vars

\* The commit fails: nothing of the transaction is kept.
CommitFails ==
    /\ pc = "commit"
    /\ Raise("OperationalError", conn)
    /\ UNCHANGED <<committed, foreign_keys_map, obs_in, cand_in, obs_df, cand_df,
                   run, ti, rows_df, ri, key_map, local_primary_key, inserted_id,
                   last, run1, swap_keys>>
    /\ UNCHANGED handler_vars
    /\ UNCHANGED extract_vars

\* load is called again with the batches of the first call.
LoadAgain ==
    /\ pc = "done"
    /\ run = 1
    /\ run' = 2
    /\ pc' = "idle"
    /\ UNCHANGED <<conn, committed, foreign_keys_map, obs_in, cand_in, obs_df,
                   cand_df, ti, rows_df, ri, key_map, local_primary_key,
                   inserted_id, last, exc, run1, swap_keys>>
    /\ UNCHANGED handler_vars
    /\ UNCHANGED extract_vars

\* ------------------------------------------------- meertrap.py: load
\* db.update_foreign_keys_map(key_name, initial_value, update_value): the
\* map of the key name is the list of the rewrites made, in order (its
\* callers read it as pairs: for initial, updated in foreign_keys_map[k]).
update_foreign_keys_map(map, key_name, initial_value, update_value) ==
    DictSet(map, key_name,
            Append(IF key_name \in DOMAIN map THEN map[key_name] ELSE <<>>,
                   <<initial_value, update_value>>))

\* The parameters of the fallback row: prepare_data_for_insert of the one-row
\* frame, without the key.
FallbackRow(target) ==
    RenameRow(Restrict(rows_df[ri], TargetColumns(<<rows_df[ri]>>, target)))

FallbackAttrs(target) ==
    Restrict(FallbackRow(target), DOMAIN FallbackRow(target) \ {target.primary_key})

\* db.load_target(df, target), the insert: the staged rows of the target go
\* to the table in one statement, as in bulk_load_target_rows.
load_target(c, target, rows) == bulk_load_target_rows(c, target, rows)

\* with engine.connect() as conn: with conn.begin(): base_load(...)
MeertrapBegin ==
    /\ pc = "idle"
    /\ conn' = [conn EXCEPT !.tx = "active"]
    /\ foreign_keys_map' = EmptyDict
    /\ obs_df' = obs_in
    /\ cand_df' = cand_in
    /\ ti' = 1
    /\ pc' = "base_load"
    /\ UNCHANGED <<committed, obs_in, cand_in, run, rows_df, ri, key_map,
                   local_primary_key, inserted_id, last, exc, run1, swap_keys>>
    /\ UNCHANGED handler_vars
    /\ UNCHANGED extract_vars

\* One turn of the loops of base_load: db.load_target stages the rows of the
\* target, inserts them in bulk and returns the batch with the key column
\* rewritten.  DuplicateInsertError rolls the transaction back and starts the
\* fallback of load on the observation batch, with a new DatabaseLoader; any
\* other exception leaves load.
BaseLoadTarget ==
    /\ pc = "base_load"
    /\ LET target == Targets[ti]
           pk == target.primary_key
           df == IF IsObservationTarget(ti) THEN obs_df ELSE cand_df
       IN  \E staged \in StagedRows(df, target) :
             \E r \in {load_target(conn, target, staged)} :
             \E map \in {DictSet(foreign_keys_map, pk, ZipKeys(staged, pk, r.ids))} :
                 /\ last' = Call(r, target.table, staged)
                 /\ committed' = CommittedAfter(r)
                 /\ CASE r.exc = "none" ->
                           /\ conn' = r.conn
                           /\ TargetLoaded(MapElements(df, pk, map[pk]), map, "base_load")
                           /\ UNCHANGED exc
                      [] Recoverable(r.exc) ->
                           /\ conn' = [Rollback(r.conn, committed) EXCEPT !.tx = "active"]
                           /\ foreign_keys_map' = EmptyDict
                           /\ obs_df' = obs_in
                           /\ ti' = 1
                           /\ pc' = "stage"
                           /\ UNCHANGED <<cand_df, exc>>
                      [] OTHER ->
                           /\ Raise(r.exc, r.conn)
                           /\ UNCHANGED <<foreign_keys_map, obs_df, cand_df, ti>>
    /\ UNCHANGED <<obs_in, cand_in, run, rows_df, ri, key_map,
                   local_primary_key, inserted_id, run1, swap_keys>>
    /\ UNCHANGED handler_vars
    /\ UNCHANGED extract_vars

\* get_unique_target_rows: the rows the loop of the target goes through.
FallbackStage ==
    /\ pc = "stage"
    /\ rows_df' = DropDuplicates(obs_df, Targets[ti].primary_key)
    /\ ri' = 1
    /\ pc' = "insert"
    /\ UNCHANGED <<conn, committed, foreign_keys_map, obs_in, cand_in, obs_df,
                   cand_df, run, ti, key_map, local_primary_key, inserted_id,
                   last, exc, run1, swap_keys>>
    /\ UNCHANGED handler_vars
    /\ UNCHANGED extract_vars

\* get_row_pk, then the insert of the row inside its savepoint.
FallbackInsert ==
    /\ pc = "insert"
    /\ LET target == Targets[ti]
       IN  \E r \in {insert_row(conn, FallbackAttrs(target), target, TRUE)} :
           /\ local_primary_key' = FallbackRow(target)[target.primary_key]
           /\ last' = Call(r, target.table, <<FallbackAttrs(target)>>)
           /\ committed' = CommittedAfter(r)
           /\ CASE r.exc = "none" ->
                     /\ conn' = r.conn
                     /\ inserted_id' = r.ids[1]
                     /\ pc' = "swap"
                     /\ UNCHANGED exc
                [] Recoverable(r.exc) ->
                     /\ conn' = r.conn
                     /\ pc' = "fetch"
                     /\ UNCHANGED <<inserted_id, exc>>
                [] OTHER ->
                     /\ Raise(r.exc, r.conn)
                     /\ UNCHANGED inserted_id
    /\ UNCHANGED <<foreign_keys_map, obs_in, cand_in, obs_df, cand_df,
                   run, ti, rows_df, ri, key_map, run1, swap_keys>>
    /\ UNCHANGED handler_vars
    /\ UNCHANGED extract_vars

\* except DuplicateInsertError: get_by with the attributes of the row; no row
\* found is the RuntimeError of load.
FallbackFetch ==
    /\ pc = "fetch"
    /\ LET target == Targets[ti]
           found == IF conn.tx = "aborted" THEN {}
                    ELSE get_by(conn, target, FallbackAttrs(target))
       IN  CASE conn.tx = "aborted" ->
                  /\ Raise("InternalError", conn)
                  /\ UNCHANGED inserted_id
             [] conn.tx # "aborted" /\ found = {} ->
                  /\ Raise("RuntimeError", conn)
                  /\ UNCHANGED inserted_id
             [] OTHER ->
                  /\ \E db_row \in found : inserted_id' = db_row["id"]
                  /\ pc' = "swap"
                  /\ UNCHANGED <<conn, exc>>
    /\ UNCHANGED <<committed, foreign_keys_map, obs_in, cand_in, obs_df, cand_df,
                   run, ti, rows_df, ri, key_map, local_primary_key, last, run1, swap_keys>>
    /\ UNCHANGED handler_vars
    /\ UNCHANGED extract_vars

\* A collision check that never fires: the rewrite without the swap.
Collides_never(df, pk) == FALSE

\* The collision check and the swap of the colliding local key.
Collides(df, pk) ==
    /\ inserted_id \in ColumnValues(df, pk)
    /\ inserted_id # local_primary_key

SwapKey(df, pk) == SetMax(ColumnValues(df, pk)) + 1

FallbackSwap ==
    /\ pc = "swap"
    /\ LET pk == Targets[ti].primary_key
       IN  IF Collides(obs_df, pk)
           THEN /\ obs_df' = update_df_value(obs_df, pk, inserted_id,
                                             SwapKey(obs_df, pk))
                /\ foreign_keys_map' =
                      update_foreign_keys_map(foreign_keys_map, pk, inserted_id,
                                              SwapKey(obs_df, pk))
                /\ swap_keys' = [swap_keys EXCEPT ![Targets[ti].table] =
                                    @ \cup {SwapKey(obs_df, pk)}]
           ELSE UNCHANGED <<obs_df, foreign_keys_map, swap_keys>>
    /\ pc' = "rewrite"
    /\ UNCHANGED <<conn, committed, obs_in, cand_in, cand_df, run, ti, rows_df,
                   ri, key_map, local_primary_key, inserted_id, last, exc, run1>>
    /\ UNCHANGED handler_vars
    /\ UNCHANGED extract_vars

\* The rewrite of the local key of the row to the identifier resolved, and
\* the step to the next row, the next observation target, or the commit.
FallbackRewrite ==
    /\ pc = "rewrite"
    /\ LET pk == Targets[ti].primary_key
       IN  /\ obs_df' = update_df_value(obs_df, pk, local_primary_key, inserted_id)
           /\ foreign_keys_map' =
                 update_foreign_keys_map(foreign_keys_map, pk, local_primary_key,
                                         inserted_id)
    /\ CASE ri < Len(rows_df) ->
              /\ ri' = ri + 1
              /\ pc' = "insert"
              /\ ti' = ti
         [] ri = Len(rows_df) /\ ti < Len(observation_targets) ->
              /\ ri' = ri
              /\ ti' = ti + 1
              /\ pc' = "stage"
         [] OTHER ->
              /\ ri' = ri
              /\ ti' = ti
              /\ pc' = "commit"
    /\ UNCHANGED <<conn, committed, obs_in, cand_in, cand_df, run, rows_df,
                   key_map, local_primary_key, inserted_id, last, exc, run1, swap_keys>>
    /\ UNCHANGED handler_vars
    /\ UNCHANGED extract_vars

NextLoader ==
    \/ Begin
    \/ LoadBulk
    \/ GetOrInsertRow
    \/ Commit
    \/ CommitFails
    \/ LoadAgain

SpecLoader == Init /\ [][NextLoader]_vars

NextMeertrap ==
    \/ MeertrapBegin
    \/ BaseLoadTarget
    \/ FallbackStage
    \/ FallbackInsert
    \/ FallbackFetch
    \/ FallbackSwap
    \/ FallbackRewrite
    \/ Commit
    \/ CommitFails

SpecMeertrap == Init /\ [][NextMeertrap]_vars

\* Both load routines, each from the idle state.
NextLoad ==
    \/ Begin
    \/ LoadBulk
    \/ GetOrInsertRow
    \/ LoadAgain
    \/ MeertrapBegin
    \/ BaseLoadTarget
    \/ FallbackStage
    \/ FallbackInsert
    \/ FallbackFetch
    \/ FallbackSwap
    \/ FallbackRewrite
    \/ Commit
    \/ CommitFails

SpecLoad == Init /\ [][NextLoad]_vars

\* ------------------------------- load.py: insert_observation_by_row
\* TargetDataFrameHandler.update_df_value: nothing when the two values are
\* equal, else every cell of the column equal to initial_value becomes
\* update_value (pl.when(col == initial).then(update).otherwise(col)).
TargetDataFrameHandler_update_df_value(df, col, initial_value, update_value) ==
    IF initial_value = update_value
    THEN df
    ELSE [i \in DOMAIN df |->
             [df[i] EXCEPT ![col] = IF @ = initial_value THEN update_value ELSE @]]

\* {v[0]: v[1] for v in db.foreign_keys_map["beam_id"]}: the entries as a
\* dict, the last entry of a key being the one kept.
PairsDict(pairs) ==
    [k \in {pairs[j][1] : j \in DOMAIN pairs} |->
        pairs[CHOOSE j \in DOMAIN pairs :
                 /\ pairs[j][1] = k
                 /\ \A l \in DOMAIN pairs : pairs[l][1] = k => l <= j][2]]

\* The identifier maps of the beams handed to the propagation: entries
\* (initial, updated) with distinct initial values.
PairLists ==
    UNION {{m \in [1..n -> (1..MaxMapKey) \X (1..MaxMapKey)] :
               \A i, j \in 1..n : m[i][1] = m[j][1] => i = j}
           : n \in 1..MaxPairs}

\* The candidates of the sub-handler: one or two rows, beam_id a local key.
CandFrames ==
    {<<CandRow(1, 1, b)>> : b \in 1..MaxMapKey}
        \cup {<<CandRow(1, 1, b1), CandRow(2, 2, b2)>> :
                  b1 \in 1..MaxMapKey, b2 \in 1..MaxMapKey}

\* insert_observation_by_row is at the loop over db.foreign_keys_map["beam_id"].
InitPropagate ==
    /\ foreign_keys_map \in {DictSet(EmptyDict, "beam_id", m) : m \in PairLists}
    /\ cand_in \in CandFrames
    /\ cand_df = cand_in
    /\ obs_in = <<>>
    /\ obs_df = <<>>
    /\ committed = [t \in TableNames |-> {}]
    /\ conn = [tables |-> committed, seqs |-> [t \in TableNames |-> 0],
               tx |-> "active"]
    /\ pc = "propagate"
    /\ run = 1
    /\ ti = Len(Targets)
    /\ rows_df = <<>>
    /\ ri = 1
    /\ key_map = EmptyDict
    /\ local_primary_key = 0
    /\ inserted_id = 0
    /\ last = NoCall
    /\ exc = "none"
    /\ run1 = [map |-> EmptyDict, tables |-> committed]
    /\ swap_keys = [t \in TableNames |-> {}]
    /\ NoHandlers
    /\ NoExtract

\* One turn of the loop: for initial, updated in db.foreign_keys_map["beam_id"]:
\* sub_cand_handler.update_df_value(col="beam_id", ...).
Propagate ==
    /\ pc = "propagate"
    /\ cand_df' = TargetDataFrameHandler_update_df_value(
                      cand_df, "beam_id",
                      foreign_keys_map["beam_id"][ri][1],
                      foreign_keys_map["beam_id"][ri][2])
    /\ IF ri < Len(foreign_keys_map["beam_id"])
       THEN ri' = ri + 1 /\ pc' = pc
       ELSE ri' = ri /\ pc' = "propagated"
    /\ UNCHANGED <<conn, committed, foreign_keys_map, obs_in, cand_in, obs_df,
                   run, ti, rows_df, key_map, local_primary_key, inserted_id,
                   last, exc, run1, swap_keys>>
    /\ UNCHANGED handler_vars
    /\ UNCHANGED extract_vars

SpecPropagate == InitPropagate /\ [][Propagate]_vars

\* ------------------------------ load.py: bulk_insert_schedule_block
\* The same point of bulk_insert_schedule_block (and of base_load): the
\* observation targets are loaded, the candidate targets not yet staged.
\* cand_df["beam_id"] = cand_df["beam_id"].map({v[0]: v[1] for v in ...})
BulkMap ==
    /\ pc = "propagate"
    /\ cand_df' = SeriesMap(cand_df, "beam_id",
                            PairsDict(foreign_keys_map["beam_id"]))
    /\ pc' = "mapped"
    /\ UNCHANGED <<conn, committed, foreign_keys_map, obs_in, cand_in, obs_df,
                   run, ti, rows_df, ri, key_map, local_primary_key, inserted_id,
                   last, exc, run1, swap_keys>>
    /\ UNCHANGED handler_vars
    /\ UNCHANGED extract_vars

SpecBulkMap == InitPropagate /\ [][BulkMap]_vars

\* ------------------------ core/insert.py: insert_row_or_get_conflict_id
\* The rows of the table that differ from the data in no column of the unique
\* constraint.
ConflictRows_unique_only(c, target, data) ==
    {r \in c.tables[target.table] :
        \A k \in DOMAIN data :
            k \in UniqueColumns[target.table] => r[k] = data[k]}

\* select_stmt: the rows of the table equal to the data in every key of the
\* data that is an attribute of the model (hasattr); the statement reads the
\* table as it was before the insert of the same statement.
ConflictRows(c, target, data) ==
    {r \in c.tables[target.table] :
        \A k \in DOMAIN data :
            k \in ModelColumns[target.table] => r[k] = data[k]}

\* The outcomes of one call: the statement inserts the row unless a unique
\* constraint rejects it (ON CONFLICT DO NOTHING takes the next value of the
\* sequence all the same), and returns the union of the identifier inserted
\* and those of the rows select_stmt finds; fetchone takes one of them, and
\* no row is MissingDataOnConflictError.  A violation of another constraint
\* is the IntegrityError of the driver.
insert_row_or_get_conflict_id(c, target, data) ==
    LET t == target.table
        r == Execute(c, t, <<data>>)
        found == Ids(ConflictRows(c, target, data))
        skipped == [tables |-> c.tables, seqs |-> [c.seqs EXCEPT ![t] = @ + 1],
                    tx |-> "active"]
    IN  CASE r.reject = "none" ->
                 {[exc |-> "none", reject |-> "none", ids |-> <<id>>,
                   conn |-> r.conn, commit |-> FALSE] :
                      id \in {r.returned[1][1]} \cup found}
          [] r.reject = "UniqueViolation" /\ found # {} ->
                 {[exc |-> "none", reject |-> "none", ids |-> <<id>>,
                   conn |-> skipped, commit |-> FALSE] : id \in found}
          [] r.reject = "UniqueViolation" /\ found = {} ->
                 {[exc |-> "MissingDataOnConflictError", reject |-> "none",
                   ids |-> <<>>, conn |-> skipped, commit |-> FALSE]}
          [] r.reject = "InFailedSqlTransaction" ->
                 {[exc |-> "InternalError", reject |-> r.reject, ids |-> <<>>,
                   conn |-> r.conn, commit |-> FALSE]}
          [] OTHER ->
                 {[exc |-> "IntegrityError", reject |-> r.reject, ids |-> <<>>,
                   conn |-> r.conn, commit |-> FALSE]}

\* The rows the primitive is called with for a target: the attributes of the
\* table, without the local key.
ConflictData(target) ==
    {Restrict(r, ModelColumns[target.table]) :
        r \in DbRows(target.table, 1..MaxPreId)}

\* A call of insert_row_or_get_conflict_id on a connection, in a transaction.
InsertRowOrGetConflictId ==
    /\ pc = "idle"
    /\ \E n \in DOMAIN Targets : \E data \in ConflictData(Targets[n]) :
       \E r \in insert_row_or_get_conflict_id(conn, Targets[n], data) :
           /\ last' = Call(r, Targets[n].table, <<data>>)
           /\ conn' = r.conn
           /\ exc' = r.exc
           /\ ti' = n
           /\ pc' = IF r.exc = "none" THEN "returned" ELSE "raised"
    /\ UNCHANGED <<committed, foreign_keys_map, obs_in, cand_in, obs_df, cand_df,
                   run, rows_df, ri, key_map, local_primary_key, inserted_id,
                   run1, swap_keys>>
    /\ UNCHANGED handler_vars
    /\ UNCHANGED extract_vars

SpecInsertOrGet == Init /\ [][InsertRowOrGetConflictId]_vars

\* ------------------------- target_handler.py: TargetDataFrameHandler
\* No load is running: the state of the loaders while the handlers are used
\* on their own.
NoLoad ==
    /\ obs_in = <<>>
    /\ cand_in = <<>>
    /\ obs_df = <<>>
    /\ cand_df = <<>>
    /\ committed = [t \in TableNames |-> {}]
    /\ conn = [tables |-> committed, seqs |-> [t \in TableNames |-> 0],
               tx |-> "none"]
    /\ foreign_keys_map = EmptyDict
    /\ pc = "none"
    /\ run = 1
    /\ ti = 1
    /\ rows_df = <<>>
    /\ ri = 0
    /\ key_map = EmptyDict
    /\ local_primary_key = 0
    /\ inserted_id = 0
    /\ last = NoCall
    /\ exc = "none"
    /\ run1 = [map |-> EmptyDict, tables |-> committed]
    /\ swap_keys = [t \in TableNames |-> {}]

\* The key columns of the batch of a handler.
KeyColumns == {"observation_id", "beam_id"}

\* The values update_df_value is called with: the local keys, and one value
\* above them for an identifier or a swap key.
HandlerValues == 1..(MaxKey + 1)

HandlerBatches ==
    UNION {[1..n -> {[c \in KeyColumns |->
                        IF c = "observation_id" THEN o ELSE b] :
                     o \in Keys, b \in Keys}]
           : n \in 1..MaxHandlerRows}

\* A row index that is 0 on every row.
with_row_index_zero(df) ==
    [i \in DOMAIN df |->
        [c \in (DOMAIN df[i]) \cup {"index"} |->
            IF c = "index" THEN 0 ELSE df[i][c]]]

\* df.with_row_index(): the column "index", counted from 0.
with_row_index(df) ==
    [i \in DOMAIN df |->
        [c \in (DOMAIN df[i]) \cup {"index"} |->
            IF c = "index" THEN i - 1 ELSE df[i][c]]]

\* df.filter(pl.col(column).is_in(values))
Filter(df, column, values) == SelectSeq(df, LAMBDA r : r[column] \in values)

\* __init__: the handler holds a copy of df, with the row index added when it
\* has no parent (parent 0 is None).
TargetDataFrameHandler(df, parent) ==
    [df |-> IF parent = 0 THEN with_row_index(df) ELSE df,
     parent |-> parent, through |-> {}]

get_sub_handler(hs, h, column, values) ==
    TargetDataFrameHandler(Filter(hs[h].df, column, values), h)

\* update_df_value that leaves the parent alone.
HandlerUpdateDfValue_child_only(hs, h, col, initial_value, update_value) ==
    [hs EXCEPT ![h].df = TargetDataFrameHandler_update_df_value(
                             @, col, initial_value, update_value)]

\* update_df_value on handler h: nothing when the two values are equal; else
\* the batch of h is rewritten and the call is repeated on the parent.
RECURSIVE HandlerUpdateDfValue(_, _, _, _, _)
HandlerUpdateDfValue(hs, h, col, initial_value, update_value) ==
    IF initial_value = update_value
    THEN hs
    ELSE IF hs[h].parent # 0
    THEN HandlerUpdateDfValue(
             [hs EXCEPT ![h].df = TargetDataFrameHandler_update_df_value(
                                      @, col, initial_value, update_value)],
             hs[h].parent, col, initial_value, update_value)
    ELSE [hs EXCEPT ![h].df = TargetDataFrameHandler_update_df_value(
                                  @, col, initial_value, update_value)]

\* A root handler is built on a batch.
InitHandler ==
    /\ NoLoad
    /\ handlers \in {<<TargetDataFrameHandler(df, 0)>> : df \in HandlerBatches}
    /\ last_update = NoUpdate
    /\ unique_rows = NoUnique
    /\ NoExtract

GetSubHandler ==
    /\ handlers # <<>>
    /\ Len(handlers) < MaxHandlers
    /\ \E h \in DOMAIN handlers, column \in KeyColumns,
          values \in (SUBSET Keys) \ {{}} :
           handlers' = Append(handlers, get_sub_handler(handlers, h, column, values))
    /\ UNCHANGED <<last_update, unique_rows>>
    /\ UNCHANGED load_vars
    /\ UNCHANGED extract_vars

UpdateDfValue ==
    /\ handlers # <<>>
    /\ last_update.n < MaxUpdates
    /\ \E h \in DOMAIN handlers, col \in KeyColumns,
          a \in HandlerValues, b \in HandlerValues :
       \E hs \in {HandlerUpdateDfValue(handlers, h, col, a, b)} :
           /\ handlers' = [i \in DOMAIN hs |->
                              [hs[i] EXCEPT !.through = @ \cup {h}]]
           /\ last_update' = [n |-> last_update.n + 1, h |-> h, col |-> col,
                              initial_value |-> a, update_value |-> b]
    /\ UNCHANGED unique_rows
    /\ UNCHANGED load_vars
    /\ UNCHANGED extract_vars

\* handler.unique_rows(target) for an observation target: self.df.unique(
\* subset=[target.primary_key]).
UniqueRows ==
    /\ handlers # <<>>
    /\ \E h \in DOMAIN handlers, n \in DOMAIN observation_targets :
       \E rows \in PolarsUnique(handlers[h].df, observation_targets[n].primary_key) :
           unique_rows' = [h |-> h,
                           primary_key |-> observation_targets[n].primary_key,
                           rows |-> rows]
    /\ UNCHANGED <<handlers, last_update>>
    /\ UNCHANGED load_vars
    /\ UNCHANGED extract_vars

NextHandler ==
    \/ GetSubHandler
    \/ UpdateDfValue

SpecHandler == InitHandler /\ [][NextHandler]_vars

\* The staging of the rows of a target through the handlers.
NextUniqueRows ==
    \/ GetSubHandler
    \/ UniqueRows

SpecUniqueRows == InitHandler /\ [][NextUniqueRows]_vars

\* ------------------- extract.py: parse_observations, parse_candidates
\* The futures of the call: one task per file found, each run by a thread of
\* the pool.  A task is "pending" until its thread starts it, "parsing" once
\* parse_if_unique has found its hash missing from the map, "done" when its
\* function has returned ("data", "None") or raised ("failed").
NewTask(h) == [hash |-> h, pc |-> "pending", result |-> "none"]

\* parse_observations or parse_candidates is called on a directory of 1 to
\* MaxFiles files; the module-level map is empty or holds a hash recorded by
\* an earlier call.
InitExtract ==
    /\ NoLoad
    /\ NoHandlers
    /\ run_summary_hash_map \in {EmptyDict, DictSet(EmptyDict, 1, 1)}
    /\ extract \in {[kind |-> k, pc |-> "pool", known |-> DOMAIN run_summary_hash_map] :
                        k \in {"observations", "candidates"}}
    /\ tasks \in UNION {[1..n -> {NewTask(h) : h \in 1..MaxHash}] : n \in 1..MaxFiles}
    /\ parsed_data = <<>>
    /\ n_task_fail = 0
    /\ yielded = {}

\* parse_if_unique up to the test: calculate_hash, then
\* if file_hash in run_summary_hash_map: return None.
ParseIfUniqueCheck ==
    /\ extract.kind = "observations"
    /\ \E f \in DOMAIN tasks :
          /\ tasks[f].pc = "pending"
          /\ tasks' = [tasks EXCEPT ![f] =
                          IF tasks[f].hash \in DOMAIN run_summary_hash_map
                          THEN [@ EXCEPT !.pc = "done", !.result = "None"]
                          ELSE [@ EXCEPT !.pc = "parsing"]]
    /\ UNCHANGED <<extract, run_summary_hash_map, parsed_data, n_task_fail, yielded>>
    /\ UNCHANGED <<load_vars, handler_vars>>

\* parse_if_unique after the test: parse_run_summary raises, or returns and
\* the hash is recorded.
ParseRunSummary ==
    /\ extract.kind = "observations"
    /\ \E f \in DOMAIN tasks :
          /\ tasks[f].pc = "parsing"
          /\ \/ /\ tasks' = [tasks EXCEPT ![f] =
                                [@ EXCEPT !.pc = "done", !.result = "failed"]]
                /\ UNCHANGED run_summary_hash_map
             \/ /\ tasks' = [tasks EXCEPT ![f] =
                                [@ EXCEPT !.pc = "done", !.result = "data"]]
                /\ run_summary_hash_map' =
                      DictSet(run_summary_hash_map, tasks[f].hash, tasks[f].hash)
    /\ UNCHANGED <<extract, parsed_data, n_task_fail, yielded>>
    /\ UNCHANGED <<load_vars, handler_vars>>

\* parse_spccl: raises or returns the data of the file.
ParseSpccl ==
    /\ extract.kind = "candidates"
    /\ \E f \in DOMAIN tasks : \E res \in {"data", "failed"} :
          /\ tasks[f].pc = "pending"
          /\ tasks' = [tasks EXCEPT ![f] = [@ EXCEPT !.pc = "done", !.result = res]]
    /\ UNCHANGED <<extract, run_summary_hash_map, parsed_data, n_task_fail, yielded>>
    /\ UNCHANGED <<load_vars, handler_vars>>

\* One turn of the loop over as_completed(futures): a future that is done
\* and not yet yielded; its result is appended (parse_observations skips
\* None), its exception counted.
Collect ==
    /\ extract.pc = "pool"
    /\ \E f \in DOMAIN tasks :
          /\ tasks[f].pc = "done"
          /\ f \notin yielded
          /\ yielded' = yielded \cup {f}
          /\ CASE tasks[f].result = "failed" ->
                     /\ n_task_fail' = n_task_fail + 1
                     /\ UNCHANGED parsed_data
                [] tasks[f].result = "None" /\ extract.kind = "observations" ->
                     UNCHANGED <<parsed_data, n_task_fail>>
                [] OTHER ->
                     /\ parsed_data' = Append(parsed_data, f)
                     /\ UNCHANGED n_task_fail
    /\ UNCHANGED <<extract, tasks, run_summary_hash_map>>
    /\ UNCHANGED <<load_vars, handler_vars>>

\* An iterator that ends once one future has been yielded.
AsCompletedExhausted_first == yielded # {}

\* as_completed(futures) has yielded every future: the for loop ends.
AsCompletedExhausted == yielded = DOMAIN tasks

\* The with block ends (every future is done by then) and the DataFrame is
\* built from parsed_data and returned; parse_observations casts the column
\* utc_stop, which a frame built from no result does not have.
ReturnDataFrame ==
    /\ extract.pc = "pool"
    /\ AsCompletedExhausted
    /\ extract' = [extract EXCEPT !.pc =
                       IF extract.kind = "observations" /\ parsed_data = <<>>
                       THEN "raised" ELSE "returned"]
    /\ UNCHANGED <<tasks, run_summary_hash_map, parsed_data, n_task_fail, yielded>>
    /\ UNCHANGED <<load_vars, handler_vars>>

NextExtract ==
    \/ ParseIfUniqueCheck
    \/ ParseRunSummary
    \/ ParseSpccl
    \/ Collect
    \/ ReturnDataFrame

SpecExtract == InitExtract /\ [][NextExtract]_vars

\* ------------------------------------------------------------------ claims
\* C1 (idempotence of the load).  When load has been run twice on the same
\* batch, every table holds as many rows as after the first run, and the
\* identifier map of the second run sends every local key of the batch to the
\* identifier the first run resolved for it.
C1_Idempotence ==
    (pc = "done" /\ run = 2) =>
        /\ \A t \in TableNames :
               Cardinality(committed[t]) = Cardinality(run1.tables[t])
        /\ \A i \in DOMAIN Targets :
               LET pk == Targets[i].primary_key
                   df == IF IsObservationTarget(i) THEN obs_in ELSE cand_in
               IN  \A k \in ColumnValues(df, pk) :
                       /\ k \in DOMAIN foreign_keys_map[pk]
                       /\ foreign_keys_map[pk][k] = run1.map[pk][k]

\* Both runs are over, the batch has two observations, and the second run
\* went through the row-by-row path.
C1_Witness ==
    /\ pc = "done"
    /\ run = 2
    /\ Cardinality(ColumnValues(obs_in, "observation_id")) = 2
    /\ Cardinality(committed["observation"]) >= 2
    /\ key_map # EmptyDict

C3_CollisionSafety ==
    (pc = "done" /\ rows_df # <<>>) =>
        \A n \in DOMAIN observation_targets :
        \A i \in DOMAIN obs_in :
        \A o \in committed["observation"], b \in committed["beam"] :
            LET pk == observation_targets[n].primary_key
                k == obs_in[i][pk]
                d == IF pk = "observation_id" THEN o["id"] ELSE b["id"]
            IN  (/\ o["name"] = obs_in[i]["obs.name"]
                 /\ b["name"] = obs_in[i]["beam.name"]
                 /\ b["observation_id"] = o["id"]
                 /\ k # d
                 /\ \E j \in DOMAIN obs_in : obs_in[j][pk] = d)
                =>
                /\ \A x, y \in DOMAIN obs_in :
                       obs_in[x][pk] # obs_in[y][pk] => obs_df[x][pk] # obs_df[y][pk]
                /\ obs_df[i][pk] = d
                /\ \A j \in DOMAIN obs_in :
                       obs_in[j][pk] = d => obs_df[j][pk] # obs_df[i][pk]

C5_NoPartialCommit ==
    pc = "raised" =>
        /\ committed = run1.tables
        /\ conn.tables = committed
        /\ conn.tx = "none"

\* load raised on the candidate target, after the observation and the beam of
\* the batch were inserted by the same call.
C5_Witness ==
    /\ pc = "raised"
    /\ ti = 3
    /\ last.table = "candidate"
    /\ "beam_id" \in DOMAIN foreign_keys_map
    /\ committed["beam"] = {}

\* C6 (fully reconciled or exception).  When load returns, every reading of
\* the observation batch carries the identifiers of a stored observation and
\* a stored beam with its attributes, and every candidate carries the
\* identifier of a stored candidate with its attributes and of the stored beam
\* its local beam key stood for.
C6_FullyReconciled ==
    pc = "done" =>
        /\ \A i \in DOMAIN obs_df :
             \E o \in committed["observation"], b \in committed["beam"] :
                 /\ o["name"] = obs_in[i]["obs.name"]
                 /\ o["id"] = obs_df[i]["observation_id"]
                 /\ b["name"] = obs_in[i]["beam.name"]
                 /\ b["id"] = obs_df[i]["beam_id"]
                 /\ b["observation_id"] = o["id"]
        /\ \A i \in DOMAIN cand_df :
             \E b \in committed["beam"], c \in committed["candidate"] :
                 /\ \E j \in DOMAIN obs_in :
                        /\ obs_in[j]["beam_id"] = cand_in[i]["beam_id"]
                        /\ obs_in[j]["beam.name"] = b["name"]
                 /\ c["id"] = cand_df[i]["candidate_id"]
                 /\ c["name"] = cand_in[i]["cand.name"]
                 /\ c["beam_id"] = b["id"]
                 /\ cand_df[i]["beam_id"] = b["id"]

\* C7 (order preservation of the bulk insert).  A bulk insert that succeeds
\* returns one identifier per staged row, the i-th being the identifier of the
\* row created from the i-th staged row, and the identifier map of the target
\* has one entry per staged local key, the i-th staged key sent to the i-th
\* identifier.
C7_OrderPreservation ==
    [][(pc = "bulk" /\ last'.exc = "none") =>
          LET target == Targets[ti]
              pk == target.primary_key
              staged == last'.data
              ids == last'.ids
              map == foreign_keys_map'[pk]
          IN  /\ Len(ids) = Len(staged)
              /\ \A i \in DOMAIN staged :
                     \E r \in conn'.tables[target.table] \ conn.tables[target.table] :
                         /\ r["id"] = ids[i]
                         /\ \A c \in ModelColumns[target.table] : r[c] = staged[i][c]
              /\ DOMAIN map = {staged[i][pk] : i \in DOMAIN staged}
              /\ Cardinality(DOMAIN map) = Len(staged)
              /\ \A i \in DOMAIN staged : map[staged[i][pk]] = ids[i]]_vars

\* A bulk insert of two rows has just succeeded.
C7_Witness ==
    /\ pc = "bulk"
    /\ last.exc = "none"
    /\ Len(last.data) = 2
    /\ Len(last.ids) = 2

\* C8 (the key mapping is applied to each element once).  The rewrite of the
\* key column of a target with the identifier map M leaves in row i the value
\* M[x] when the value x it held is a key of M and x otherwise, also when M[x]
\* is itself a key of M.
C8_MappingAppliedOnce ==
    [][(pc \in {"bulk", "get_or_insert"} /\ (ti' # ti \/ pc' = "commit")) =>
          LET pk == Targets[ti].primary_key
              M == foreign_keys_map'[pk]
              old == IF IsObservationTarget(ti) THEN obs_df ELSE cand_df
              new == IF IsObservationTarget(ti) THEN obs_df' ELSE cand_df'
          IN  /\ Len(new) = Len(old)
              /\ \A i \in DOMAIN old :
                     new[i][pk] = IF old[i][pk] \in DOMAIN M
                                  THEN M[old[i][pk]] ELSE old[i][pk]]_vars

\* The observation key was rewritten with a map one of whose values is
\* another of its keys.
C8_Witness ==
    /\ pc = "bulk"
    /\ ti = 2
    /\ "observation_id" \in DOMAIN foreign_keys_map
    /\ \E k \in DOMAIN foreign_keys_map["observation_id"] :
           /\ foreign_keys_map["observation_id"][k] # k
           /\ foreign_keys_map["observation_id"][k]
                  \in DOMAIN foreign_keys_map["observation_id"]
    /\ \A i \in DOMAIN obs_in :
           obs_df[i]["observation_id"]
               = foreign_keys_map["observation_id"][obs_in[i]["observation_id"]]

C10_ErrorClassification ==
    /\ last.exc = "DuplicateInsertError" <=> last.reject = "UniqueViolation"
    /\ last.exc = "ForeignKeyError" <=> last.reject = "ForeignKeyViolation"
    /\ last.reject = "NotNullViolation" => last.exc = "RuntimeError"
    /\ last.exc = "RuntimeError" => (pc = "raised" /\ exc = "RuntimeError")

\* insert_ met a NOT NULL violation and load has raised RuntimeError.
C10_Witness ==
    /\ last.reject = "NotNullViolation"
    /\ last.exc = "RuntimeError"
    /\ pc = "raised"
    /\ exc = "RuntimeError"

\* C11 (insert_ never commits).  A call of insert_ leaves what is committed
\* as it was; when it succeeds it adds the rows it returned the identifiers of
\* to its table, inside the transaction of the caller, and changes no other
\* table; and once the caller has rolled its transaction back after a
\* successful insert_, no row of that call is in the table.
C11_InsertNeverCommits ==
    [][/\ (\/ pc \in {"bulk", "base_load", "insert"}
           \/ (pc = "get_or_insert" /\ last' # last))
          => /\ committed' = committed
             /\ last'.exc = "none" =>
                  /\ conn'.tx = "active"
                  /\ \A t \in TableNames \ {last'.table} :
                         conn'.tables[t] = conn.tables[t]
                  /\ conn.tables[last'.table] \subseteq conn'.tables[last'.table]
                  /\ Ids(conn'.tables[last'.table] \ conn.tables[last'.table])
                         = {last'.ids[i] : i \in DOMAIN last'.ids}
                  /\ Ids(committed'[last'.table])
                         \cap {last'.ids[i] : i \in DOMAIN last'.ids} = {}
       /\ (pc' = "raised" /\ last'.exc = "none")
          => /\ Ids(conn'.tables[last'.table])
                    \cap {last'.ids[i] : i \in DOMAIN last'.ids} = {}
             /\ Ids(committed'[last'.table])
                    \cap {last'.ids[i] : i \in DOMAIN last'.ids} = {}]_vars

\* The last call of insert_ succeeded and returned an identifier, the
\* transaction was rolled back afterwards, and the table does not hold the
\* row.
C11_Witness ==
    /\ pc = "raised"
    /\ exc = "OperationalError"
    /\ last.exc = "none"
    /\ Len(last.ids) = 1
    /\ conn.seqs[last.table] >= last.ids[1]
    /\ last.ids[1] \notin Ids(conn.tables[last.table])

\* A dict that sends distinct keys to distinct values.
C12_Injective(M) == \A a, b \in DOMAIN M : M[a] = M[b] => a = b

C14_SwapBeforeRewrite ==
    [][(pc \in {"stage", "insert", "fetch", "swap", "rewrite"}) =>
         /\ (pc = "swap" /\ Collides(obs_df, Targets[ti].primary_key)) =>
               LET pk == Targets[ti].primary_key
               IN  /\ pc' = "rewrite"
                   /\ foreign_keys_map'[pk][Len(foreign_keys_map'[pk])]
                          = <<inserted_id, SwapKey(obs_df, pk)>>
                   /\ inserted_id \notin ColumnValues(obs_df', pk)
                   /\ \A i \in DOMAIN obs_df :
                          /\ obs_df[i][pk] = inserted_id
                                 => obs_df'[i][pk] = SwapKey(obs_df, pk)
                          /\ obs_df[i][pk] # inserted_id
                                 => obs_df'[i][pk] = obs_df[i][pk]
         /\ pc # "rewrite" =>
               \A i \in DOMAIN obs_df :
                   obs_df[i][Targets[ti].primary_key] = local_primary_key
                       => obs_df'[i][Targets[ti].primary_key] = local_primary_key
         /\ \A n \in DOMAIN observation_targets :
            \A x, y \in DOMAIN obs_in :
                obs_in[x][observation_targets[n].primary_key]
                    # obs_in[y][observation_targets[n].primary_key]
                => obs_df'[x][observation_targets[n].primary_key]
                       # obs_df'[y][observation_targets[n].primary_key]]_vars

\* A collision swap has just been made: a reading holds the swap key, the
\* row being resolved still holds its local key, and the rewrite is next.
C14_Witness ==
    /\ pc = "rewrite"
    /\ swap_keys[Targets[ti].table] # {}
    /\ inserted_id # local_primary_key
    /\ inserted_id \notin ColumnValues(obs_df, Targets[ti].primary_key)
    /\ local_primary_key \in ColumnValues(obs_df, Targets[ti].primary_key)
    /\ \E i \in DOMAIN obs_df :
           /\ obs_in[i][Targets[ti].primary_key] = inserted_id
           /\ obs_df[i][Targets[ti].primary_key] \in swap_keys[Targets[ti].table]

\* The readings of the batch the fallback has resolved for the target it is
\* at: those whose original key is the key of a row the loop has been through.
C15_Resolved ==
    {i \in DOMAIN obs_in :
        \E j \in 1..(ri - 1) :
            rows_df[j][Targets[ti].primary_key] = obs_in[i][Targets[ti].primary_key]}

\* C15 (the collision swap touches only unresolved keys).  In the fallback no
\* step changes the key of a reading that has been resolved, and when the
\* collision check fires the identifier is the key of a reading that has not
\* been resolved and of no reading that has.
C15_SwapOnlyUnresolved ==
    [][(pc \in {"insert", "fetch", "swap", "rewrite"}) =>
         /\ \A i \in C15_Resolved :
                obs_df'[i][Targets[ti].primary_key] = obs_df[i][Targets[ti].primary_key]
         /\ (pc = "swap" /\ Collides(obs_df, Targets[ti].primary_key)) =>
               /\ \E i \in DOMAIN obs_df \ C15_Resolved :
                      obs_df[i][Targets[ti].primary_key] = inserted_id
               /\ \A i \in C15_Resolved :
                      obs_df[i][Targets[ti].primary_key] # inserted_id]_vars

\* C16 (every staged row is processed once, with its up-to-date key).  The
\* fallback goes through the rows of the target in order, each once, and the
\* local key it holds for the row it is at is the key the readings of that row
\* have in the batch at that moment.
C16_UpToDateKey ==
    /\ pc \in {"insert", "fetch", "swap", "rewrite"} => ri \in 1..Len(rows_df)
    /\ pc \in {"fetch", "swap"} =>
          \A i \in DOMAIN obs_in :
              obs_in[i][Targets[ti].primary_key] = rows_df[ri][Targets[ti].primary_key]
                  => obs_df[i][Targets[ti].primary_key] = local_primary_key

\* C17 (per-target state order).  In DatabaseLoader.load every target is
\* bulk-attempted first, with the maps of the targets before it populated and
\* its own not; the row-by-row path is entered only from a bulk attempt of
\* the same target that raised DuplicateInsertError, and is not left for
\* another bulk attempt of that target; the map of the target is written
\* once, by the bulk path when it succeeded and by the row-by-row path
\* otherwise; and the key column is rewritten with that map in the step that
\* writes it, which is the step that passes to the next target.
C17_StateOrder ==
    [][LET pk == Targets[ti].primary_key
           old == IF IsObservationTarget(ti) THEN obs_df ELSE cand_df
           new == IF IsObservationTarget(ti) THEN obs_df' ELSE cand_df'
       IN  /\ pc' = "bulk" =>
                 /\ Targets[ti'].primary_key \notin DOMAIN foreign_keys_map'
                 /\ \A j \in 1..(ti' - 1) :
                        Targets[j].primary_key \in DOMAIN foreign_keys_map'
           /\ (pc' = "get_or_insert" /\ pc # "get_or_insert") =>
                 /\ pc = "bulk"
                 /\ ti' = ti
                 /\ last'.exc = "DuplicateInsertError"
                 /\ last'.table = Targets[ti].table
                 /\ pk \notin DOMAIN foreign_keys_map'
           /\ (pc = "get_or_insert" /\ pc' \notin {"get_or_insert", "raised"}) =>
                 (ti' = ti + 1 \/ pc' = "commit")
           /\ (pc \in {"bulk", "get_or_insert"}
                   /\ foreign_keys_map' # foreign_keys_map) =>
                 /\ pk \notin DOMAIN foreign_keys_map
                 /\ DOMAIN foreign_keys_map' = DOMAIN foreign_keys_map \cup {pk}
                 /\ IF pc = "bulk"
                    THEN /\ last'.exc = "none"
                         /\ foreign_keys_map'[pk] = ZipKeys(last'.data, pk, last'.ids)
                    ELSE foreign_keys_map'[pk] = key_map'
                 /\ new = MapElements(old, pk, foreign_keys_map'[pk])
                 /\ (ti' = ti + 1 \/ pc' = "commit")
           /\ (pc \in {"bulk", "get_or_insert"}
                   /\ foreign_keys_map' = foreign_keys_map) =>
                 /\ new = old
                 /\ ti' = ti
                 /\ pc' # "commit"]_vars

\* The second target was bulk-attempted after the first went through the
\* row-by-row path and had its map and its key column written.
C17_Witness ==
    /\ pc = "bulk"
    /\ ti = 2
    /\ key_map # EmptyDict
    /\ foreign_keys_map["observation_id"] = key_map
    /\ obs_df # obs_in

\* C18 (a ForeignKeyError is fatal only after the lookup fails), as the
\* specification states it.  A call of insert_ that raises ForeignKeyError,
\* in a bulk attempt or for a row, does not end the load: the lookup follows.
C18_ForeignKeyLookup ==
    [][((\/ pc \in {"bulk", "base_load", "insert"}
         \/ (pc = "get_or_insert" /\ last' # last))
        /\ last'.exc = "ForeignKeyError")
       => pc' # "raised"]_vars

\* C19 (the derived attribute is excluded from the duplicate lookup).  In
\* every row-by-row path, when the row of the observation target is looked up
\* and a stored observation has its attributes other than t_max, the row
\* resolves to the identifier of that observation: the load does not raise
\* and no observation is inserted.
C19_DerivedAttributeExcluded ==
    [][/\ (pc = "get_or_insert" /\ Targets[ti].table = "observation") =>
            \A o \in conn.tables["observation"] :
                o["name"] = rows_df[ri]["name"] =>
                    /\ pc' # "raised"
                    /\ conn'.tables = conn.tables
                    /\ key_map'[rows_df[ri]["observation_id"]] = o["id"]
       /\ (pc = "fetch" /\ Targets[ti].table = "observation") =>
            \A o \in conn.tables["observation"] :
                o["name"] = FallbackAttrs(Targets[ti])["name"] =>
                    /\ pc' # "raised"
                    /\ conn'.tables = conn.tables
                    /\ inserted_id' = o["id"]]_vars

C21_UnmappedPassThrough ==
    pc = "mapped" =>
        \A i \in DOMAIN cand_in :
            LET M == PairsDict(foreign_keys_map["beam_id"])
                b == cand_in[i]["beam_id"]
            IN  /\ b \in DOMAIN M => cand_df[i]["beam_id"] = M[b]
                /\ b \notin DOMAIN M => cand_df[i]["beam_id"] = b

\* The handler h and its ancestors.
RECURSIVE HandlerChain(_, _)
HandlerChain(hs, h) ==
    IF hs[h].parent = 0 THEN {h} ELSE {h} \cup HandlerChain(hs, hs[h].parent)

\* C22 (child updates write through to the parent).  A call of
\* update_df_value(col, a, b) with a # b on a handler leaves, in the batch of
\* that handler and of each of its ancestors, b in every cell of col that held
\* a, every other cell as it was and the number of rows as it was; a call
\* with a = b changes no batch.
C22_WriteThrough ==
    [][last_update'.n = last_update.n + 1 =>
         LET u == last_update'
         IN  IF u.initial_value = u.update_value
             THEN \A g \in DOMAIN handlers : handlers'[g].df = handlers[g].df
             ELSE \A g \in HandlerChain(handlers, u.h) :
                    /\ Len(handlers'[g].df) = Len(handlers[g].df)
                    /\ \A i \in DOMAIN handlers[g].df :
                       \A c \in DOMAIN handlers[g].df[i] :
                           handlers'[g].df[i][c] =
                               IF c = u.col /\ handlers[g].df[i][c] = u.initial_value
                               THEN u.update_value
                               ELSE handlers[g].df[i][c]]_vars

\* A key was rewritten to a value above the local keys through a sub-handler
\* of a sub-handler, and the root and the sub-handler hold the new value.
C22_Witness ==
    /\ Len(handlers) = 3
    /\ handlers[3].parent = 2
    /\ handlers[2].parent = 1
    /\ last_update.h = 3
    /\ last_update.initial_value \in Keys
    /\ last_update.update_value = MaxKey + 1
    /\ \E i \in DOMAIN handlers[1].df :
           handlers[1].df[i][last_update.col] = MaxKey + 1
    /\ \E i \in DOMAIN handlers[3].df :
           handlers[3].df[i][last_update.col] = MaxKey + 1

\* The root of handler h.
RECURSIVE C30_Root(_, _)
C30_Root(hs, h) == IF hs[h].parent = 0 THEN h ELSE C30_Root(hs, hs[h].parent)

\* Every call of update_df_value made since a sub-handler on the way from h
\* to the root exists was made through h or a handler between the two.
C30_ThroughOnly(hs, h) ==
    \A g \in HandlerChain(hs, h) :
        hs[g].parent # 0 =>
            hs[g].through \subseteq {x \in HandlerChain(hs, h) : x >= g}

\* C30 (a sub-handler stays a consistent view of its root batch).  For a
\* sub-handler obtained from the root, or from a sub-handler of this kind,
\* when every call of update_df_value since was made through it: each of its
\* rows is the row of the root batch with the same row
\* index, with the same value in every column; a call leaves the root with
\* the number of rows it had, and changes a row of the root that is outside
\* the sub-handler only in cells that held the initial value of the call.
C30_ConsistentView ==
    [][\A h \in DOMAIN handlers' :
         (handlers'[h].parent # 0 /\ C30_ThroughOnly(handlers', h)) =>
            LET sub == handlers'[h].df
                root == handlers'[C30_Root(handlers', h)].df
                before == handlers[C30_Root(handlers', h)].df
                u == last_update'
            IN  /\ \A k \in DOMAIN sub :
                      /\ \E i \in DOMAIN root : root[i]["index"] = sub[k]["index"]
                      /\ \A i \in DOMAIN root :
                             root[i]["index"] = sub[k]["index"] => root[i] = sub[k]
                /\ Len(root) = Len(before)
                /\ \A i \in DOMAIN root :
                      (\A k \in DOMAIN sub : sub[k]["index"] # root[i]["index"]) =>
                          \A c \in DOMAIN root[i] :
                              root[i][c] # before[i][c] =>
                                  /\ c = u.col
                                  /\ before[i][c] = u.initial_value
                                  /\ root[i][c] = u.update_value]_vars

\* Two calls were made through a sub-handler of a sub-handler and through no
\* other handler, the second on a value the first had written; the
\* sub-handler holds one row of the two of the root.
C30_Witness ==
    /\ Len(handlers) = 3
    /\ handlers[3].parent = 2
    /\ handlers[2].parent = 1
    /\ handlers[3].through = {3}
    /\ last_update.n = 2
    /\ last_update.initial_value = MaxKey + 1
    /\ last_update.update_value \in Keys
    /\ Len(handlers[3].df) = 1
    /\ Len(handlers[1].df) = 2
    /\ handlers[1].df[1][last_update.col] # handlers[1].df[2][last_update.col]

\* C23 (staging collapses duplicate local keys keep-first).  The rows staged
\* for a target hold exactly one row for each distinct local key of the
\* batch, and the row of a key is the first row of the batch that carries the
\* key.
C23_KeepFirst ==
    unique_rows.h # 0 =>
        LET df == handlers[unique_rows.h].df
            pk == unique_rows.primary_key
            rows == unique_rows.rows
        IN  /\ ColumnValues(rows, pk) = ColumnValues(df, pk)
            /\ \A i, j \in DOMAIN rows : rows[i][pk] = rows[j][pk] => i = j
            /\ \A i \in DOMAIN rows :
                  \E k \in DOMAIN df :
                      /\ df[k] = rows[i]
                      /\ \A l \in 1..(k - 1) : df[l][pk] # rows[i][pk]

\* C24 (the local key never reaches the insert primitive).  In every call of
\* insert_ made by a load, no row of the data holds the local key column of
\* the target the rows are inserted for.
C24_LocalKeyRemoved ==
    last.table # "none" =>
        \A n \in DOMAIN Targets :
            Targets[n].table = last.table =>
                \A i \in DOMAIN last.data :
                    Targets[n].primary_key \notin DOMAIN last.data[i]

C26_Ordered(targets) ==
    \A i \in DOMAIN targets : \A fk \in targets[i].foreign_keys :
        \E j \in 1..(i - 1) : targets[j].primary_key = fk

\* C26 (the configured sequences respect the dependency order and the loader
\* keeps the order it is given).  While a load runs, the targets loaded so
\* far are the targets before the current one in the sequence, every insert
\* is made for the current target, and the current target stays or moves to
\* the next of the sequence; the load ends with every target loaded.  In the
\* configured sequences (observation targets
\* followed by candidate targets; ATNF targets) and in the sequence of the
\* model every foreign-key column is the key of an earlier target.
C26_DependencyOrder ==
    [][/\ C26_Ordered(configured_observation_targets \o configured_candidate_targets)
       /\ C26_Ordered(atnf_targets)
       /\ C26_Ordered(Targets)
       /\ pc' \in {"bulk", "get_or_insert"} =>
             DOMAIN foreign_keys_map' = {Targets[j].primary_key : j \in 1..(ti' - 1)}
       /\ pc' \in {"commit", "done"} =>
             DOMAIN foreign_keys_map' = {Targets[j].primary_key : j \in DOMAIN Targets}
       /\ pc \in {"bulk", "get_or_insert"} =>
             /\ ti' \in {ti, ti + 1}
             /\ last' # last => last'.table = Targets[ti].table
       /\ pc \notin {"bulk", "get_or_insert"} => last' = last]_vars

\* A load is over that loaded the three targets, the beams row by row, and
\* left two beams stored.
C26_Witness ==
    /\ pc = "done"
    /\ run = 1
    /\ DOMAIN foreign_keys_map = {"observation_id", "beam_id", "candidate_id"}
    /\ Cardinality(committed["beam"]) = 2
    /\ Cardinality(committed["candidate"]) >= 1
    /\ last.table = "candidate"

\* C27 (the worker pool drains before a batch is produced).  When
\* parse_observations or parse_candidates has built its DataFrame, every task
\* submitted is done, the batch holds the result of each task that returned
\* data, once, and nothing else, and every task that raised was counted.
C27_DrainBeforeBatch ==
    extract.pc \in {"returned", "raised"} =>
        /\ \A f \in DOMAIN tasks : tasks[f].pc = "done"
        /\ {parsed_data[i] : i \in DOMAIN parsed_data}
              = {f \in DOMAIN tasks : tasks[f].result = "data"}
        /\ Len(parsed_data) = Cardinality({f \in DOMAIN tasks : tasks[f].result = "data"})
        /\ n_task_fail = Cardinality({f \in DOMAIN tasks : tasks[f].result = "failed"})

\* A batch was returned from three tasks of which one raised, one returned
\* None and one returned data, the failing one yielded first.
C27_Witness ==
    /\ extract.kind = "observations"
    /\ extract.pc = "returned"
    /\ Len(tasks) = 3
    /\ tasks[1].result = "failed"
    /\ tasks[2].result = "data"
    /\ tasks[3].result = "None"
    /\ parsed_data = <<2>>
    /\ n_task_fail = 1

\* C28 (run-summary uniqueness under concurrent workers).  When the tasks of
\* parse_if_unique are over and none raised, of the files with the same hash,
\* a hash no earlier call recorded, exactly one yielded data and the others
\* yielded None.
C28_UniqueUnderConcurrency ==
    (/\ extract.kind = "observations"
     /\ \A f \in DOMAIN tasks : tasks[f].pc = "done" /\ tasks[f].result # "failed")
    => \A f \in DOMAIN tasks :
          (/\ tasks[f].hash \notin extract.known
           /\ \E g \in DOMAIN tasks : g # f /\ tasks[g].hash = tasks[f].hash) =>
              /\ Cardinality({g \in DOMAIN tasks :
                                 /\ tasks[g].hash = tasks[f].hash
                                 /\ tasks[g].result = "data"}) = 1
              /\ tasks[f].result \in {"data", "None"}

\* C29 (a failed bulk attempt leaves no trace).  When bulk_load_target_rows
\* raises, whatever the staged rows, the connection holds the rows it held
\* before the call, in every table; when the fallback starts the transaction
\* is the one that was open before the attempt and still accepts statements,
\* and foreign_keys_map, the entry of the target and the entries of the
\* targets loaded earlier, is what it was; when the exception leaves load,
\* foreign_keys_map is what it was.
C29_FailedBulkLeavesNoTrace ==
    [][(pc = "bulk") =>
         /\ \A staged \in StagedRows(CurrentDf, Targets[ti]) :
              \E r \in {bulk_load_target_rows(conn, Targets[ti], staged)} :
                 r.exc # "none" => r.conn.tables = conn.tables
         /\ (pc' = "get_or_insert") =>
              /\ last'.exc = "DuplicateInsertError"
              /\ conn'.tables = conn.tables
              /\ conn'.tx = conn.tx
              /\ foreign_keys_map' = foreign_keys_map
         /\ (pc' = "raised") => foreign_keys_map' = foreign_keys_map]_vars

\* The fallback starts for the second target after a bulk statement of two
\* rows was rejected as a duplicate, with the rows and the map of the first
\* target in place and not yet committed.
C29_Witness ==
    /\ pc = "get_or_insert"
    /\ ri = 1
    /\ key_map = EmptyDict
    /\ ti = 2
    /\ last.exc = "DuplicateInsertError"
    /\ Len(last.data) = 2
    /\ Targets[1].primary_key \in DOMAIN foreign_keys_map
    /\ conn.tables[Targets[1].table] # committed[Targets[1].table]
    /\ conn.tx = "active"


====
